---- MODULE Spec2Model ----
(***************************************************************************)
(* Model of src/profile.py: the Streamlit page script that fetches the OKX *)
(* option instruments and the index price (get_okx_data), normalises the   *)
(* records into a DataFrame and draws the volume-by-strike chart for one   *)
(* selected expiration.                                                    *)
(*                                                                         *)
(* One page run is: RunPage (the script starts, get_okx_data issues the    *)
(* instrument GET), InstrumentResponse (the GET returns or raises; the     *)
(* records are normalised and the index GET is issued), IndexResponse      *)
(* (the second GET returns or raises; get_okx_data returns), Render (the   *)
(* rest of the script, lines 125-237).  Tick lets wall-clock time pass     *)
(* between two page runs.                                                  *)
(*                                                                         *)
(* Raw JSON fields are strings, modelled as sequences of one-character     *)
(* strings and parsed digit by digit.  A JSON record that lacks a key is a *)
(* TLA+ record without that field.  Times are scaled: one day is DayLen    *)
(* units of expTime.                                                       *)
(***************************************************************************)
EXTENDS Integers, Sequences, FiniteSets, TLC

\* ---------------------------------------------------------------- bounds
\* Largest number of records in one instrument listing.
MaxRecs == 2

\* ------------------------------------------------------ program constants
\* ttl of the (commented-out) st.cache_data decorator, in seconds.
TTL == 300
\* One calendar day in the (scaled) unit of expTime.
DayLen == 10
\* pd.Timestamp.now().floor('D'), as a day number: the runs happen on day 1.
Today == 1

\* The clock advances by one TTL at a time; MaxTime is the last instant.
TickStep == TTL
MaxTime == TTL

Currencies == {"BTC", "ETH"}

\* ------------------------------------------------------------ raw values
None == [present |-> FALSE, val |-> 0]
Some(v) == [present |-> TRUE, val |-> v]

NaN == [nan |-> TRUE, v |-> 0]
Num(v) == [nan |-> FALSE, v |-> v]

IsDigit(c) == c \in {"0", "1", "2", "3", "4", "5", "6", "7", "8", "9"}

DigitVal(c) ==
  CASE c = "0" -> 0 [] c = "1" -> 1 [] c = "2" -> 2 [] c = "3" -> 3
    [] c = "4" -> 4 [] c = "5" -> 5 [] c = "6" -> 6 [] c = "7" -> 7
    [] c = "8" -> 8 [] c = "9" -> 9

RECURSIVE DigitsValue(_)
DigitsValue(s) ==
  IF s = <<>> THEN 0
  ELSE DigitsValue(SubSeq(s, 1, Len(s) - 1)) * 10 + DigitVal(s[Len(s)])

\* The number a string denotes: an optional sign and at least one digit.
\* Anything else (letters, the empty string) does not parse.
ParseNumber(s) ==
  LET neg == s # <<>> /\ s[1] = "-"
      body == IF neg THEN Tail(s) ELSE s
      ok == body # <<>> /\ \A i \in 1..Len(body) : IsDigit(body[i])
  IN IF ok THEN [ok |-> TRUE, v |-> IF neg THEN 0 - DigitsValue(body) ELSE DigitsValue(body)]
     ELSE [ok |-> FALSE, v |-> 0]

\* pd.DataFrame(instrument_data)[col]: the column exists when at least one
\* record has the key; a record without it holds NaN (here: no field).
HasColumn(data, col) == \E i \in 1..Len(data) : col \in DOMAIN data[i]

Columns == {"instId", "stk", "optType", "vol24h", "expTime"}

\* pd.to_numeric(cell, errors='coerce')
ToNumeric(rec, col) ==
  IF col \notin DOMAIN rec THEN NaN
  ELSE LET p == ParseNumber(rec[col])
       IN IF p.ok THEN Num(p.v) ELSE NaN

\* .fillna(0)
FillNa0(x) == IF x.nan THEN 0 ELSE x.v

\* lambda x: 'call' if x == 'C' else 'put'
OptionType(rec) ==
  IF "optType" \in DOMAIN rec /\ rec["optType"] = <<"C">> THEN "call" ELSE "put"

\* pd.to_datetime(cell, unit='ms') raises on a cell that is not a number.
DatetimeRaises(rec) ==
  "expTime" \in DOMAIN rec /\ ~ParseNumber(rec["expTime"]).ok

\* pd.to_datetime(cell, unit='ms'): NaT for a missing cell.
ToDatetime(rec) ==
  IF "expTime" \notin DOMAIN rec THEN [nat |-> TRUE, t |-> 0]
  ELSE [nat |-> FALSE, t |-> ParseNumber(rec["expTime"]).v]

\* Timestamp.normalize(): the time of day is dropped.
NormalizeDate(d) == IF d.nat THEN d ELSE [nat |-> FALSE, t |-> (d.t \div DayLen) * DayLen]

\* ------------------------------------------------- what the exchange sends
Rec(id, stk, opt, vol, exp) ==
  [instId |-> id, stk |-> stk, optType |-> opt, vol24h |-> vol, expTime |-> exp]

\* Well-formed records: two calls with the same strike and expiration (a tie
\* for the sort), a put, and a call at a later expiration.
GoodRecords ==
  { Rec(<<"A">>, <<"5">>, <<"C">>, <<"3">>, <<"2", "3">>),
    Rec(<<"B">>, <<"5">>, <<"C">>, <<"4">>, <<"2", "0">>),
    Rec(<<"D">>, <<"7">>, <<"P">>, <<"3">>, <<"2", "0">>),
    Rec(<<"E">>, <<"1", "2">>, <<"C">>, <<"3">>, <<"3", "0">>) }

\* Records with one defect each: a strike that is not a number or is zero, an
\* unknown side, a volume that is not a number or is negative, an expTime
\* that is not a number or lies in the past, no vol24h key, no optType key.
OddRecords ==
  { Rec(<<"F">>, <<"x">>, <<"C">>, <<"3">>, <<"2", "0">>),
    Rec(<<"G">>, <<"0">>, <<"C">>, <<"3">>, <<"2", "0">>),
    Rec(<<"I">>, <<"5">>, <<"X">>, <<"3">>, <<"2", "0">>),
    Rec(<<"J">>, <<"5">>, <<"C">>, <<"x">>, <<"2", "0">>),
    Rec(<<"K">>, <<"5">>, <<"P">>, <<"-", "3">>, <<"2", "0">>),
    Rec(<<"L">>, <<"5">>, <<"C">>, <<"3">>, <<"x">>),
    Rec(<<"M">>, <<"5">>, <<"C">>, <<"3">>, <<"0", "5">>),
    [instId |-> <<"O">>, stk |-> <<"5">>, optType |-> <<"C">>, expTime |-> <<"2", "0">>],
    [instId |-> <<"Q">>, stk |-> <<"5">>, vol24h |-> <<"3">>, expTime |-> <<"2", "0">>] }

RawRecords == GoodRecords \cup OddRecords

\* The "data" array of the instrument listing.
Payloads == UNION { [1..n -> RawRecords] : n \in 0..MaxRecs }

\* The "data" array of the index ticker: empty, or one ticker whose idxPx is
\* a price, zero, not a number, or absent.
IndexPayloads ==
  { <<>>, <<[idxPx |-> <<"6">>]>>, <<[idxPx |-> <<"0">>]>>,
    <<[idxPx |-> <<"x">>]>>, <<[instId |-> <<"B", "T", "C">>]>> }

\* How a GET can fail: requests.get raises Timeout or another
\* RequestException, raise_for_status raises HTTPError, .json() raises.
Failures == {"timeout", "http_error", "conn_error", "bad_json"}

\* ------------------------------------------------------------- the state
VARIABLES
  pc,               \* where the page run is
  now,              \* wall-clock time, seconds
  currency,         \* selected_currency
  window_start,     \* per key: when the ttl window of a cache would have opened
  cache_age,        \* age of the entry a ttl cache would hold at this read, or -1
  instr_gets,       \* instrument GETs issued by this invocation
  index_gets,       \* index GETs issued by this invocation
  options_response, \* outcome of the instrument GET
  index_response,   \* outcome of the index GET
  index_price_data, \* the index ticker's "data"
  instrument_data,  \* the listing's "data"
  df,               \* the normalised DataFrame inside get_okx_data
  options_df,       \* get_okx_data's first result
  index_price,      \* get_okx_data's second result
  messages,         \* st.warning / st.error / st.info shown in this run
  view              \* what the chart shows

vars == <<pc, now, currency, window_start, cache_age, instr_gets, index_gets,
          options_response, index_response, index_price_data, instrument_data,
          df, options_df, index_price, messages, view>>

Msg(level, kind) == [level |-> level, kind |-> kind]

NoView == [shown |-> FALSE, expiration |-> 0, refline |-> <<>>, calls |-> <<>>, puts |-> <<>>]

\* --------------------------------------------------------- normalisation
\* Faulty variant: dropna() over every column, so a NaN volume drops the row.
KeepRowAnyNa(rec) == ~ToNumeric(rec, "stk").nan /\ ~ToNumeric(rec, "vol24h").nan
\* df[[...]].dropna(subset=['strike'])
KeepRow(rec) == ~ToNumeric(rec, "stk").nan

Row(rec) ==
  [instrument_name |-> IF "instId" \in DOMAIN rec THEN rec["instId"] ELSE <<>>,
   strike          |-> ToNumeric(rec, "stk").v,
   option_type     |-> OptionType(rec),
   volume_24h      |-> FillNa0(ToNumeric(rec, "vol24h")),
   expiration_date |-> ToDatetime(rec)]

RECURSIVE NormalizeRows(_)
NormalizeRows(data) ==
  IF data = <<>> THEN <<>>
  ELSE (IF KeepRow(Head(data)) THEN <<Row(Head(data))>> ELSE <<>>)
       \o NormalizeRows(Tail(data))

\* Lines 52-61 raise when a column is absent from every record (KeyError) or
\* when an expTime is not a number (to_datetime).
NormalizeRaises(data) ==
  \/ \E col \in Columns : ~HasColumn(data, col)
  \/ \E i \in 1..Len(data) : DatetimeRaises(data[i])

\* ---------------------------------------------------------- get_okx_data
\* The exception classes a failed GET can raise.  A body that is not JSON
\* raises requests' JSONDecodeError, a RequestException in current versions
\* of requests and a plain ValueError in older ones.
Raised(failure) ==
  CASE failure = "timeout"    -> {"Timeout"}
    [] failure = "http_error" -> {"HTTPError"}
    [] failure = "conn_error" -> {"RequestException"}
    [] failure = "bad_json"   -> {"RequestException", "Exception"}

\* What the four except clauses show.
Handler(exc) ==
  CASE exc = "Timeout"          -> <<Msg("error", "timeout")>>
    [] exc = "HTTPError"        -> <<Msg("error", "http"), Msg("info", "http_hint")>>
    [] exc = "RequestException" -> <<Msg("error", "request")>>
    [] exc = "Exception"        -> <<Msg("error", "unexpected")>>

\* Faulty variant: the empty listing reported with st.error.
EmptyListingAsError == Msg("error", "no_options_data")
\* st.warning of line 49.
EmptyListingMessage == Msg("warning", "no_options_data")

\* Faulty variant: the except clause repeats the request once.
GetsAfterRetry(n) == n + 1
\* An except clause returns; it issues no further request.
GetsAfterFailure(n) == n

\* What st.cache_data(ttl=300) would hold for a key: the result of the last
\* call that ran to its return without an exception handler, kept for TTL
\* seconds.  window_start[c] is when that call ran, -1 when there is none.
EntryAge(c) ==
  IF window_start[c] # -1 /\ now - window_start[c] < TTL
    THEN now - window_start[c]
  ELSE -1

\* A call that ran (no entry was served) opens the key's ttl window.
OpenWindow ==
  window_start' = IF cache_age = -1 THEN [window_start EXCEPT ![currency] = now]
                  ELSE window_start

\* return pd.DataFrame(), None  (after an exception, or on an empty listing)
ReturnEmpty(msgs) ==
  /\ pc' = "returned"
  /\ options_df' = <<>>
  /\ index_price' = None
  /\ messages' = messages \o msgs

\* The script starts: the sidebar's currency is read and get_okx_data called,
\* which issues the instrument GET (lines 117-123, 18-39).  The decorator
\* st.cache_data(ttl=300) is commented out, so the call always runs;
\* cache_age records the entry the decorator would have served.
RunPage ==
  /\ pc \in {"start", "rendered"}
  /\ \E c \in Currencies :
       /\ currency' = c
       /\ cache_age' = EntryAge(c)
  /\ pc' = "instr_wait"
  /\ instr_gets' = 1
  /\ index_gets' = 0
  /\ options_response' = "pending"
  /\ index_response' = "none"
  /\ index_price_data' = <<>>
  /\ instrument_data' = <<>>
  /\ df' = <<>>
  /\ options_df' = <<>>
  /\ index_price' = None
  /\ messages' = <<>>
  /\ view' = NoView
  /\ UNCHANGED <<now, window_start>>

\* The instrument GET fails (lines 39-46, 86-100).
InstrumentFails ==
  /\ pc = "instr_wait"
  /\ \E f \in Failures : \E exc \in Raised(f) :
       /\ options_response' = f
       /\ ReturnEmpty(Handler(exc))
  /\ instr_gets' = GetsAfterFailure(instr_gets)
  /\ UNCHANGED <<now, currency, window_start, cache_age, index_gets,
                 index_response, index_price_data, instrument_data, df, view>>

\* The instrument GET succeeds (lines 39-71): an empty listing returns at
\* once; otherwise the records are normalised and the index GET is issued,
\* unless the normalisation raises.
InstrumentResponse ==
  /\ pc = "instr_wait"
  /\ \E data \in Payloads :
       /\ options_response' = "ok"
       /\ instrument_data' = data
       /\ IF data = <<>>
            THEN /\ ReturnEmpty(<<EmptyListingMessage>>)
                 /\ OpenWindow
                 /\ UNCHANGED <<df, index_gets, index_response, instr_gets>>
          ELSE IF NormalizeRaises(data)
            THEN /\ ReturnEmpty(Handler("Exception"))
                 /\ instr_gets' = GetsAfterFailure(instr_gets)
                 /\ UNCHANGED <<df, index_gets, index_response, window_start>>
          ELSE /\ df' = NormalizeRows(data)
               /\ index_gets' = index_gets + 1
               /\ index_response' = "pending"
               /\ pc' = "index_wait"
               /\ UNCHANGED <<options_df, index_price, messages, instr_gets,
                              window_start>>
  /\ UNCHANGED <<now, currency, cache_age, index_price_data, view>>

\* The index GET fails (lines 71-78, 86-100).
IndexFails ==
  /\ pc = "index_wait"
  /\ \E f \in Failures : \E exc \in Raised(f) :
       /\ index_response' = f
       /\ ReturnEmpty(Handler(exc))
  /\ index_gets' = GetsAfterFailure(index_gets)
  /\ UNCHANGED <<now, currency, window_start, cache_age, instr_gets,
                 options_response, index_price_data, instrument_data, df, view>>

\* float(index_price_data[0].get("idxPx")) raises on None and on a string
\* that is not a number.
FloatRaises(ticker) ==
  "idxPx" \notin DOMAIN ticker \/ ~ParseNumber(ticker["idxPx"]).ok

\* The index GET succeeds (lines 71-84): float(idxPx) raises on a missing or
\* non-numeric idxPx; otherwise get_okx_data returns df and the price.
IndexResponse ==
  /\ pc = "index_wait"
  /\ \E data \in IndexPayloads :
       /\ index_response' = "ok"
       /\ index_price_data' = data
       /\ IF data = <<>>
            THEN /\ pc' = "returned"
                 /\ options_df' = df
                 /\ index_price' = None
                 /\ OpenWindow
                 /\ UNCHANGED <<messages, index_gets>>
          ELSE IF FloatRaises(data[1])
            THEN /\ ReturnEmpty(Handler("Exception"))
                 /\ index_gets' = GetsAfterFailure(index_gets)
                 /\ UNCHANGED window_start
          ELSE /\ pc' = "returned"
               /\ options_df' = df
               /\ index_price' = Some(ParseNumber(data[1]["idxPx"]).v)
               /\ OpenWindow
               /\ UNCHANGED <<messages, index_gets>>
  /\ UNCHANGED <<now, currency, cache_age, instr_gets,
                 options_response, instrument_data, df, view>>

\* ------------------------------------------------ the page, lines 125-237
RECURSIVE RowsAt(_, _)
\* options_df[options_df['expiration_date'].dt.normalize() == selected]
RowsAt(rows, sel) ==
  IF rows = <<>> THEN <<>>
  ELSE (IF NormalizeDate(Head(rows).expiration_date) = sel THEN <<Head(rows)>> ELSE <<>>)
       \o RowsAt(Tail(rows), sel)

RECURSIVE RowsOfType(_, _)
\* filtered_df[filtered_df['option_type'] == side]
RowsOfType(rows, side) ==
  IF rows = <<>> THEN <<>>
  ELSE (IF Head(rows).option_type = side THEN <<Head(rows)>> ELSE <<>>)
       \o RowsOfType(Tail(rows), side)

\* The dates offered by the sidebar: the normalised expiration dates that are
\* not in the past (NaT compares false and is never offered).
ExpirationDates(rows) ==
  { NormalizeDate(rows[i].expiration_date) : i \in
      { j \in 1..Len(rows) : /\ ~rows[j].expiration_date.nat
                             /\ NormalizeDate(rows[j].expiration_date).t >= Today * DayLen } }

Orderings(n) == { f \in [1..n -> 1..n] : \A i, j \in 1..n : f[i] = f[j] => i = j }

\* sort_values('strike'): the default sort is not stable, so rows of equal
\* strike may come out in any order.
SortValues(rows) ==
  { q \in { [i \in 1..Len(rows) |-> rows[f[i]]] : f \in Orderings(Len(rows)) } :
      \A i, j \in 1..Len(q) : i < j => q[i].strike <= q[j].strike }

MinStrike(rows) == CHOOSE m \in { rows[i].strike : i \in 1..Len(rows) } :
                     \A i \in 1..Len(rows) : m <= rows[i].strike
MaxStrike(rows) == CHOOSE m \in { rows[i].strike : i \in 1..Len(rows) } :
                     \A i \in 1..Len(rows) : m >= rows[i].strike

\* `if index_price:` -- None and 0.0 are both falsy.
ShowsIndexLine(price) == price.present /\ price.val # 0

\* The x range of the index-price line (lines 165-170).
ReferenceLine(filtered, price) ==
  IF filtered # <<>> THEN <<MinStrike(filtered), MaxStrike(filtered)>>
  ELSE <<(price.val * 8) \div 10, (price.val * 12) \div 10>>

\* The rest of the script after get_okx_data returned.
Render ==
  /\ pc = "returned"
  /\ pc' = "rendered"
  /\ IF options_df = <<>>
       THEN /\ messages' = Append(messages, Msg("info", "no_data_or_error"))
            /\ view' = NoView
     ELSE IF ExpirationDates(options_df) = {}
       THEN /\ messages' = Append(messages, Msg("warning", "no_future_expiration"))
            /\ view' = NoView
     ELSE \E sel \in ExpirationDates(options_df) :
            LET filtered == RowsAt(options_df, sel)
            IN IF filtered = <<>>
                 THEN /\ messages' = Append(messages, Msg("warning", "no_data_for_expiration"))
                      /\ view' = NoView
               ELSE \E calls \in SortValues(RowsOfType(filtered, "call")) :
                    \E puts \in SortValues(RowsOfType(filtered, "put")) :
                      /\ view' = [shown      |-> TRUE,
                                  expiration |-> sel.t,
                                  refline    |-> IF ShowsIndexLine(index_price)
                                                   THEN ReferenceLine(filtered, index_price)
                                                 ELSE <<>>,
                                  calls      |-> calls,
                                  puts       |-> puts]
                      /\ messages' = IF ShowsIndexLine(index_price) THEN messages
                                     ELSE Append(messages, Msg("warning", "no_index_price"))
  /\ UNCHANGED <<now, currency, window_start, cache_age, instr_gets, index_gets,
                 options_response, index_response, index_price_data,
                 instrument_data, df, options_df, index_price>>

\* Time passes between two page runs.
Tick ==
  /\ pc \in {"start", "rendered"}
  /\ now + TickStep <= MaxTime
  /\ now' = now + TickStep
  /\ UNCHANGED <<pc, currency, window_start, cache_age, instr_gets, index_gets,
                 options_response, index_response, index_price_data,
                 instrument_data, df, options_df, index_price, messages, view>>

Init ==
  /\ pc = "start"
  /\ now = 0
  /\ currency = "BTC"
  /\ window_start = [c \in Currencies |-> -1]
  /\ cache_age = -1
  /\ instr_gets = 0
  /\ index_gets = 0
  /\ options_response = "none"
  /\ index_response = "none"
  /\ index_price_data = <<>>
  /\ instrument_data = <<>>
  /\ df = <<>>
  /\ options_df = <<>>
  /\ index_price = None
  /\ messages = <<>>
  /\ view = NoView

Next ==
  \/ RunPage
  \/ InstrumentFails
  \/ InstrumentResponse
  \/ IndexFails
  \/ IndexResponse
  \/ Render
  \/ Tick

Spec == Init /\ [][Next]_vars

\* ================================================================ claims
\* Helpers of the statements below.
Returned == pc \in {"returned", "rendered"}

StrikeParses(rec) == "stk" \in DOMAIN rec /\ ParseNumber(rec["stk"]).ok
VolumeParses(rec) == "vol24h" \in DOMAIN rec /\ ParseNumber(rec["vol24h"]).ok
SideRecognized(rec) == "optType" \in DOMAIN rec /\ rec["optType"] \in {<<"C">>, <<"P">>}
ExpiryParses(rec) == "expTime" \in DOMAIN rec /\ ParseNumber(rec["expTime"]).ok
WellFormed(rec) ==
  /\ "instId" \in DOMAIN rec
  /\ StrikeParses(rec) /\ ParseNumber(rec["stk"]).v > 0
  /\ VolumeParses(rec) /\ ParseNumber(rec["vol24h"]).v >= 0
  /\ SideRecognized(rec)
  /\ ExpiryParses(rec)

RowsNamed(rows, rec) ==
  { i \in 1..Len(rows) : "instId" \in DOMAIN rec /\ rows[i].instrument_name = rec["instId"] }

\* The listing came back with at least one record and was normalised, so the
\* index GET was issued.
ListingFetched == options_response = "ok" /\ instrument_data # <<>> /\ index_gets = 1

\* The index call failed: the GET itself, or the parse of its idxPx.
IndexCallFailed ==
  \/ index_response \in Failures
  \/ index_response = "ok" /\ index_price_data # <<>> /\ FloatRaises(index_price_data[1])

HasError == \E i \in 1..Len(messages) : messages[i].level = "error"
ErrorCount == Cardinality({ i \in 1..Len(messages) : messages[i].level = "error" })

\* C1: when the instrument listing was fetched with at least one record and
\* the index-price call then fails, get_okx_data returns the normalised
\* quotes with index_price None, not the empty failure result.
C1_IndexFailureKeepsQuotes ==
  (Returned /\ ListingFetched /\ IndexCallFailed)
    => (options_df = NormalizeRows(instrument_data) /\ index_price = None)

\* C2: a read of a key for which an entry younger than TTL exists issues no
\* network call, so the reads that fall in one ttl window issue one fetch in
\* total (the one that opened the window).
C2_FreshEntryServedWithoutFetch ==
  (pc # "start" /\ cache_age # -1) => (instr_gets = 0 /\ index_gets = 0)

\* C3: a parse problem in one raw record never aborts the snapshot: when both
\* GETs succeeded, every well-formed record of the payload is in the result.
C3_BadRecordDoesNotAbort ==
  (Returned /\ options_response = "ok" /\ index_response \notin Failures /\ ~IndexCallFailed)
    => \A i \in 1..Len(instrument_data) :
         WellFormed(instrument_data[i]) => RowsNamed(options_df, instrument_data[i]) # {}

\* C4: once the listing is normalised, a record whose strike does not parse
\* has no row, and a record whose strike parses has a row with that strike
\* whose volume_24h is the parsed volume, or 0 when the volume does not parse.
C4_VolumeDefaultsStrikeDrops ==
  (index_gets = 1) =>
    \A i \in 1..Len(instrument_data) :
      LET rec == instrument_data[i]
      IN /\ ~StrikeParses(rec) => RowsNamed(df, rec) = {}
         /\ StrikeParses(rec) =>
              /\ RowsNamed(df, rec) # {}
              /\ \A k \in RowsNamed(df, rec) :
                   /\ df[k].strike = ParseNumber(rec["stk"]).v
                   /\ df[k].volume_24h =
                        IF VolumeParses(rec) THEN ParseNumber(rec["vol24h"]).v ELSE 0

\* C4 witness: a normalised listing that held a record with a good strike and
\* an unparseable volume, and a record with an unparseable strike.
C4_Witness ==
  /\ pc = "index_wait"
  /\ \E i \in 1..Len(instrument_data) :
       StrikeParses(instrument_data[i]) /\ ~VolumeParses(instrument_data[i])
  /\ \E i \in 1..Len(instrument_data) : ~StrikeParses(instrument_data[i])
  /\ Len(df) = 1 /\ df[1].volume_24h = 0

\* C5: every row of the DataFrame get_okx_data returns has strike > 0, a side
\* that is call or put, and volume_24h >= 0.
C5_SurvivorsSatisfyInvariants ==
  \A i \in 1..Len(options_df) :
    /\ options_df[i].strike > 0
    /\ options_df[i].option_type \in {"call", "put"}
    /\ options_df[i].volume_24h >= 0

\* C6: a record whose side token is neither C nor P (or is missing) is
\* skipped: it has no row, neither as a call nor as a put.
C6_UnrecognizedSideSkipped ==
  (index_gets = 1) =>
    \A i \in 1..Len(instrument_data) :
      ~SideRecognized(instrument_data[i]) => RowsNamed(df, instrument_data[i]) = {}

Alphabet == <<"A", "B", "C", "D", "E", "F", "G", "H", "I", "J", "K", "L", "M",
              "N", "O", "P", "Q", "R", "S", "T", "U", "V", "W", "X", "Y", "Z">>
CharRank(c) == CHOOSE i \in 1..Len(Alphabet) : Alphabet[i] = c

RECURSIVE NameLeq(_, _)
\* String comparison of two instrument ids.
NameLeq(a, b) ==
  IF a = <<>> THEN TRUE
  ELSE IF b = <<>> THEN FALSE
  ELSE IF a[1] = b[1] THEN NameLeq(Tail(a), Tail(b))
  ELSE CharRank(a[1]) < CharRank(b[1])

SortedByStrikeThenId(rows) ==
  \A i, j \in 1..Len(rows) :
    i < j => \/ rows[i].strike < rows[j].strike
             \/ /\ rows[i].strike = rows[j].strike
                /\ NameLeq(rows[i].instrument_name, rows[j].instrument_name)

\* C7: the calls and the puts of the chart are each sorted ascending by
\* strike, rows of equal strike ordered by instrument id.
C7_TiesBrokenByInstrumentId ==
  view.shown => (SortedByStrikeThenId(view.calls) /\ SortedByStrikeThenId(view.puts))

\* C8: whenever an index price is present (any value), the chart of the
\* selected expiration carries the reference line, from the smallest to the
\* largest strike of the quotes at that expiration.
C8_ReferenceLineWheneverIndexPrice ==
  (pc = "rendered" /\ view.shown /\ index_price.present)
    => LET filtered == RowsAt(options_df, [nat |-> FALSE, t |-> view.expiration])
       IN view.refline = <<MinStrike(filtered), MaxStrike(filtered)>>

\* The page run failed to fetch: a GET failed or the processing raised.
FetchFailed ==
  \/ options_response \in Failures
  \/ options_response = "ok" /\ instrument_data # <<>> /\ NormalizeRaises(instrument_data)
  \/ IndexCallFailed

\* C9: an empty but successful listing returns zero quotes and is shown as a
\* no-data notice that is not an error, while every failed fetch shows an
\* error: the two outcomes differ on the page.
C9_EmptyListingIsNotAnError ==
  Returned =>
    /\ (options_response = "ok" /\ instrument_data = <<>>) =>
         /\ options_df = <<>>
         /\ ~HasError
         /\ \E i \in 1..Len(messages) :
              messages[i].kind = "no_options_data" /\ messages[i].level \in {"warning", "info"}
    /\ FetchFailed =>
         /\ HasError
         /\ \A i \in 1..Len(messages) : messages[i].kind # "no_options_data"

\* C9 witness: a page run whose listing came back empty, rendered.
C9_Witness ==
  pc = "rendered" /\ options_response = "ok" /\ instrument_data = <<>> /\ Len(messages) = 2

\* C10: one invocation issues at most one instrument GET and at most one
\* index GET, the index GET only after a non-empty listing was fetched, and a
\* failure ends the invocation with one error and the empty result, no
\* request having been repeated or added.
C10_NoRetry ==
  /\ instr_gets <= 1
  /\ index_gets <= 1
  /\ index_gets = 1 => (options_response = "ok" /\ instrument_data # <<>>)
  /\ (options_response \notin {"ok", "none"} /\ pc # "instr_wait") => index_gets = 0
  /\ FetchFailed =>
       /\ Returned
       /\ ErrorCount = 1
       /\ options_df = <<>> /\ index_price = None

\* C10 witness: the index GET timed out after a fetched listing.
C10_Witness ==
  /\ pc = "returned" /\ index_response = "timeout"
  /\ options_response = "ok" /\ instr_gets = 1 /\ index_gets = 1

====
